---------------------------- MODULE Spec2Model ----------------------------
(***************************************************************************)
(* A model of the Generic Cell Rate limiter of src/src/lib.rs (struct Gcr   *)
(* with new, capacity_at/capacity, request and adjust), driven by a         *)
(* monotonic clock.                                                         *)
(*                                                                          *)
(* Time is counted in the clock's smallest unit (one nanosecond, the unit   *)
(* of std::time::Duration).  A Duration is a number in 0..DurationMax, an   *)
(* Instant a number in InstantMin..InstantMax, a u32 a number in            *)
(* 0..U32Max: the widths are scaled down so that the overflow branches of   *)
(* the code are within reach of the model checker.  The std operations      *)
(* keep their documented behaviour: Duration * u32 and Instant + Duration   *)
(* panic when the result is not representable, the checked_ operations      *)
(* return None instead, and a float-to-u32 cast saturates (NaN gives 0).    *)
(***************************************************************************)
EXTENDS Integers

(* ------------------------------ bounds -------------------------------- *)

\* The last reading of the clock that the model explores.
MaxClock == 6
\* Largest rate handed to new/adjust.
MaxRate == 2
\* Largest period handed to new/adjust.
MaxPeriod == 4
\* Largest max_burst handed to new/adjust; request sizes go one beyond it.
MaxBurst == 3
\* Scaled-down u32::MAX.
U32Max == 5
\* Scaled-down Duration::MAX.
DurationMax == 7
\* Scaled-down upper end of the Instant range.
InstantMax == 40

\* The clock's epoch: the lower end of the Instant range.
InstantMin == 0

VARIABLES
    clock,      \* the current reading of Instant::now()
    gcr,        \* the limiter (struct Gcr), or NoGcr before construction
    last,       \* the call that produced this state: arguments, result, state before
    denied,     \* the latest DeniedFor, while no request or adjust followed it
    zeroed,     \* the latest successful request that took the capacity to 0, likewise
    account     \* where an account is kept (the runs that never adjust): the
                \* limiter's construction time and the units its successful
                \* requests admitted

vars == <<clock, gcr, last, denied, zeroed, account>>

Min(a, b) == IF a <= b THEN a ELSE b
Max(a, b) == IF a >= b THEN a ELSE b

(* ------------------------------ values -------------------------------- *)

None == [some |-> FALSE, val |-> 0]
Some(v) == [some |-> TRUE, val |-> v]

\* struct Gcr; live = FALSE stands for "no limiter has been constructed".
Gcr(ei, dt, tat, at, mb) ==
    [live |-> TRUE, emission_interval |-> ei, delay_tolerance |-> dt,
     theoretical_arrival_time |-> tat, allow_at |-> at, max_burst |-> mb]

NoGcr ==
    [live |-> FALSE, emission_interval |-> 0, delay_tolerance |-> 0,
     theoretical_arrival_time |-> 0, allow_at |-> 0, max_burst |-> 0]

NoDenied == [active |-> FALSE, n |-> 0, at |-> 0, d |-> 0]
NoZeroed == [active |-> FALSE, at |-> 0]
NoAccount == [kept |-> FALSE, active |-> FALSE, born |-> 0, admitted |-> 0]
OpenAccount == [kept |-> TRUE, active |-> FALSE, born |-> 0, admitted |-> 0]

\* The record kept of a call.  value is the duration of a DeniedFor or the
\* number returned by capacity(); retry is the denial pending before a request.
Call(op, rate, period, max_burst, n, now, outcome, value, pre, retry) ==
    [op |-> op, rate |-> rate, period |-> period, max_burst |-> max_burst,
     n |-> n, now |-> now, outcome |-> outcome, value |-> value, pre |-> pre,
     retry |-> retry]

NoCall == Call("none", 0, 0, None, 0, 0, "none", 0, NoGcr, NoDenied)

(* --------------------------- std operations --------------------------- *)

\* max_burst.unwrap_or(rate)
unwrap_or(opt, default) == IF opt.some THEN opt.val ELSE default

\* Duration * u32 and u32 * Duration panic when the product overflows.
mul_overflows(k, d) == k * d > DurationMax

\* Instant + Duration panics when the sum is not representable.
add_overflows(t, d) == t + d > InstantMax

\* Instant::checked_sub(Duration) is None when the difference is not representable.
sub_underflows(t, d) == t - d < InstantMin

\* time_since.div_duration_f64(emission_interval) as u32: the quotient of the
\* two durations as a float, cast to u32.  The cast truncates toward zero and
\* saturates; x/0 is +inf for x > 0 (cast: u32::MAX) and 0/0 is NaN (cast: 0).
\* Within the model's bounds both operands are exact as floats, so the
\* truncated quotient is the integer quotient.
div_duration_as_u32(time_since, emission_interval) ==
    IF emission_interval = 0
    THEN IF time_since = 0 THEN 0 ELSE U32Max
    ELSE Min(time_since \div emission_interval, U32Max)

(* ------------------------------ Gcr::new ------------------------------ *)

\* A variant that saturates the subtraction at the epoch instead of failing.
new_saturating(rate, period, max_burst, now) ==
    IF rate = 0
    THEN [outcome |-> "ParametersOutOfRange", gcr |-> NoGcr]
    ELSE LET emission_interval == period \div rate
             mb == unwrap_or(max_burst, rate)
             delay_tolerance == emission_interval * mb
         IN  IF mul_overflows(mb, emission_interval)
             THEN [outcome |-> "panic", gcr |-> NoGcr]
             ELSE [outcome |-> "Ok",
                   gcr |-> Gcr(emission_interval, delay_tolerance, now,
                               Max(now - delay_tolerance, InstantMin), mb)]

new(rate, period, max_burst, now) ==
    IF rate = 0
    THEN [outcome |-> "ParametersOutOfRange", gcr |-> NoGcr]
    ELSE LET emission_interval == period \div rate
             mb == unwrap_or(max_burst, rate)
             delay_tolerance == emission_interval * mb
         IN  IF mul_overflows(mb, emission_interval)
             THEN [outcome |-> "panic", gcr |-> NoGcr]
             ELSE IF sub_underflows(now, delay_tolerance)
             THEN [outcome |-> "ParametersOutOfRange", gcr |-> NoGcr]
             ELSE [outcome |-> "Ok",
                   gcr |-> Gcr(emission_interval, delay_tolerance, now,
                               now - delay_tolerance, mb)]

(* --------------------------- Gcr::capacity_at ------------------------- *)

\* A variant that rounds the quotient to the nearest unit instead of
\* truncating it.
capacity_at_rounded(g, now) ==
    IF now < g.allow_at
    THEN 0
    ELSE Min(div_duration_as_u32(2 * (now - g.allow_at) + g.emission_interval,
                                 2 * g.emission_interval),
             g.max_burst)

capacity_at(g, now) ==
    IF now < g.allow_at
    THEN 0
    ELSE Min(div_duration_as_u32(now - g.allow_at, g.emission_interval),
             g.max_burst)

(* ----------------------------- Gcr::capacity -------------------------- *)

\* A variant that stores the clamped position back into the limiter.
capacity_clamping(g, now) ==
    [value |-> capacity_at(g, now),
     gcr |-> [g EXCEPT !.allow_at =
                  now - capacity_at(g, now) * g.emission_interval]]

\* capacity takes &self: it returns capacity_at(Instant::now()) and leaves the
\* limiter as it is.
capacity(g, now) ==
    [value |-> capacity_at(g, now), gcr |-> g]

(* ----------------------------- Gcr::request --------------------------- *)

\* The first check of request: larger than the maximum burst.
too_large_off_by_one(g, n) == n > g.max_burst + 1

too_large(g, n) == n > g.max_burst

\* A variant that charges one emission interval whatever n is.
admit_single_unit(g, n, now) ==
    LET cost == g.emission_interval
        base == Max(g.theoretical_arrival_time, now)
        tat == base + cost
    IN  IF mul_overflows(n, g.emission_interval) \/ add_overflows(base, cost)
        THEN [outcome |-> "panic", value |-> 0, gcr |-> g]
        ELSE IF sub_underflows(tat, g.delay_tolerance)
        THEN [outcome |-> "ParametersOutOfRange", value |-> 0,
              gcr |-> [g EXCEPT !.theoretical_arrival_time = tat]]
        ELSE [outcome |-> "Ok", value |-> 0,
              gcr |-> [g EXCEPT !.theoretical_arrival_time = tat,
                                !.allow_at = tat - g.delay_tolerance]]

\* A variant that restarts the cursor from the clock without the max.
admit_from_now(g, n, now) ==
    LET cost == n * g.emission_interval
        base == now
        tat == base + cost
    IN  IF mul_overflows(n, g.emission_interval) \/ add_overflows(base, cost)
        THEN [outcome |-> "panic", value |-> 0, gcr |-> g]
        ELSE IF sub_underflows(tat, g.delay_tolerance)
        THEN [outcome |-> "ParametersOutOfRange", value |-> 0,
              gcr |-> [g EXCEPT !.theoretical_arrival_time = tat]]
        ELSE [outcome |-> "Ok", value |-> 0,
              gcr |-> [g EXCEPT !.theoretical_arrival_time = tat,
                                !.allow_at = tat - g.delay_tolerance]]

\* The admission step of request: the cursor moves, then allow_at follows it.
\* When the checked subtraction fails the error is returned after
\* theoretical_arrival_time has been assigned.
admit(g, n, now) ==
    LET cost == n * g.emission_interval
        base == Max(g.theoretical_arrival_time, now)
        tat == base + cost
    IN  IF mul_overflows(n, g.emission_interval) \/ add_overflows(base, cost)
        THEN [outcome |-> "panic", value |-> 0, gcr |-> g]
        ELSE IF sub_underflows(tat, g.delay_tolerance)
        THEN [outcome |-> "ParametersOutOfRange", value |-> 0,
              gcr |-> [g EXCEPT !.theoretical_arrival_time = tat]]
        ELSE [outcome |-> "Ok", value |-> 0,
              gcr |-> [g EXCEPT !.theoretical_arrival_time = tat,
                                !.allow_at = tat - g.delay_tolerance]]

\* A variant that denies only when allow_time is strictly after now.
request_strict_denial(g, n, now) ==
    IF n > g.max_burst
    THEN [outcome |-> "RequestTooLarge", value |-> 0, gcr |-> g]
    ELSE IF n > capacity_at(g, now)
    THEN LET cost == n * g.emission_interval
             allow_time == g.allow_at + cost
         IN  IF mul_overflows(n, g.emission_interval)
                \/ add_overflows(g.allow_at, cost)
             THEN [outcome |-> "panic", value |-> 0, gcr |-> g]
             ELSE IF allow_time > now
             THEN [outcome |-> "DeniedFor", value |-> allow_time - now, gcr |-> g]
             ELSE [outcome |-> "Ok", value |-> 0,
                   gcr |-> [g EXCEPT
                       !.theoretical_arrival_time =
                           Max(g.theoretical_arrival_time, now) + cost,
                       !.allow_at =
                           Max(g.theoretical_arrival_time, now) + cost
                               - g.delay_tolerance]]
    ELSE [outcome |-> "Ok", value |-> 0,
          gcr |-> [g EXCEPT
              !.theoretical_arrival_time =
                  Max(g.theoretical_arrival_time, now) + n * g.emission_interval,
              !.allow_at =
                  Max(g.theoretical_arrival_time, now) + n * g.emission_interval
                      - g.delay_tolerance]]

request(g, n, now) ==
    IF too_large(g, n)
    THEN [outcome |-> "RequestTooLarge", value |-> 0, gcr |-> g]
    ELSE IF n > capacity_at(g, now)
    THEN LET cost == n * g.emission_interval
             allow_time == g.allow_at + cost
         IN  IF mul_overflows(n, g.emission_interval)
                \/ add_overflows(g.allow_at, cost)
             THEN [outcome |-> "panic", value |-> 0, gcr |-> g]
             ELSE IF allow_time >= now
             THEN [outcome |-> "DeniedFor", value |-> allow_time - now, gcr |-> g]
             ELSE admit(g, n, now)
    ELSE admit(g, n, now)

(* ----------------------------- Gcr::adjust ---------------------------- *)

\* A variant that moves allow_at and leaves the candidate's
\* theoretical_arrival_time at its construction time.
rescale_stale_cursor(old, candidate, now) ==
    IF now < old.allow_at
    THEN [outcome |-> "Ok", gcr |-> candidate]
    ELSE LET elapsed == div_duration_as_u32(now - old.allow_at,
                                            old.emission_interval)
             back == elapsed * candidate.emission_interval
         IN  IF mul_overflows(elapsed, candidate.emission_interval)
             THEN [outcome |-> "panic", gcr |-> old]
             ELSE IF sub_underflows(now, back)
             THEN [outcome |-> "ParametersOutOfRange", gcr |-> old]
             ELSE [outcome |-> "Ok",
                   gcr |-> [candidate EXCEPT !.allow_at = now - back]]

\* A variant that writes the rescaled cursor into the limiter itself before
\* the checked subtraction is known to succeed.
rescale_in_place(old, candidate, now) ==
    IF now < old.allow_at
    THEN [outcome |-> "Ok", gcr |-> candidate]
    ELSE LET elapsed == div_duration_as_u32(now - old.allow_at,
                                            old.emission_interval)
             back == elapsed * candidate.emission_interval
         IN  IF mul_overflows(elapsed, candidate.emission_interval)
             THEN [outcome |-> "panic", gcr |-> old]
             ELSE IF sub_underflows(now, back)
             THEN [outcome |-> "ParametersOutOfRange", gcr |-> candidate]
             ELSE IF add_overflows(now - back, candidate.delay_tolerance)
             THEN [outcome |-> "panic", gcr |-> old]
             ELSE [outcome |-> "Ok",
                   gcr |-> [candidate EXCEPT
                       !.allow_at = now - back,
                       !.theoretical_arrival_time =
                           (now - back) + candidate.delay_tolerance]]

\* The body of adjust after the candidate has been built: the elapsed whole
\* intervals of the old limiter are carried to the candidate's time scale, and
\* the result is what adjust assigns to *self (the old value on an error).
rescale(old, candidate, now) ==
    IF now < old.allow_at
    THEN [outcome |-> "Ok", gcr |-> candidate]
    ELSE LET elapsed == div_duration_as_u32(now - old.allow_at,
                                            old.emission_interval)
             back == elapsed * candidate.emission_interval
         IN  IF mul_overflows(elapsed, candidate.emission_interval)
             THEN [outcome |-> "panic", gcr |-> old]
             ELSE IF sub_underflows(now, back)
             THEN [outcome |-> "ParametersOutOfRange", gcr |-> old]
             ELSE IF add_overflows(now - back, candidate.delay_tolerance)
             THEN [outcome |-> "panic", gcr |-> old]
             ELSE [outcome |-> "Ok",
                   gcr |-> [candidate EXCEPT
                       !.allow_at = now - back,
                       !.theoretical_arrival_time =
                           (now - back) + candidate.delay_tolerance]]

\* adjust reads the clock twice: inside Gcr::new (created) and again for the
\* rescaling (now).
adjust(g, rate, period, max_burst, created, now) ==
    LET made == new(rate, period, max_burst, created)
    IN  IF made.outcome # "Ok"
        THEN [outcome |-> made.outcome, gcr |-> g]
        ELSE rescale(g, made.gcr, now)

(* ------------------------------ inputs -------------------------------- *)

Rates == 0..MaxRate
Periods == 0..MaxPeriod
Bursts == {None} \cup {Some(b) : b \in 0..MaxBurst}
Sizes == 0..(MaxBurst + 1)

(* ------------------------------ actions ------------------------------- *)

Init ==
    /\ clock = 0
    /\ gcr = NoGcr
    /\ last = NoCall
    /\ denied = NoDenied
    /\ zeroed = NoZeroed
    /\ account = NoAccount

\* A call that panicked has ended the caller.
Running == last.outcome # "panic"

\* The monotonic clock advances.
Tick ==
    /\ Running
    /\ clock < MaxClock
    /\ clock' = clock + 1
    /\ last' = NoCall
    /\ UNCHANGED <<gcr, denied, zeroed, account>>

\* let rate = Gcr::new(rate, period, max_burst)
New ==
    /\ Running
    /\ ~gcr.live
    /\ \E rate \in Rates, period \in Periods, max_burst \in Bursts :
         LET r == new(rate, period, max_burst, clock)
         IN  /\ gcr' = r.gcr
             /\ last' = Call("new", rate, period, max_burst, 0, clock,
                             r.outcome, 0, gcr, NoDenied)
             /\ account' = IF r.outcome = "Ok" /\ account.kept
                           THEN [account EXCEPT !.active = TRUE,
                                                !.born = clock,
                                                !.admitted = 0]
                           ELSE account
    /\ UNCHANGED <<clock, denied, zeroed>>

\* rate.capacity()
Capacity ==
    /\ Running
    /\ gcr.live
    /\ LET r == capacity(gcr, clock)
       IN  /\ gcr' = r.gcr
           /\ last' = Call("capacity", 0, 0, None, 0, clock, "Ok", r.value,
                           gcr, NoDenied)
    /\ UNCHANGED <<clock, denied, zeroed, account>>

\* rate.request(n)
Request ==
    /\ Running
    /\ gcr.live
    /\ \E n \in Sizes :
         LET r == request(gcr, n, clock)
         IN  /\ gcr' = r.gcr
             /\ last' = Call("request", 0, 0, None, n, clock, r.outcome,
                             r.value, gcr, denied)
             /\ denied' = IF r.outcome = "DeniedFor"
                          THEN [active |-> TRUE, n |-> n, at |-> clock,
                                d |-> r.value]
                          ELSE NoDenied
             /\ zeroed' = IF /\ r.outcome = "Ok"
                             /\ capacity_at(gcr, clock) > 0
                             /\ capacity_at(r.gcr, clock) = 0
                          THEN [active |-> TRUE, at |-> clock]
                          ELSE NoZeroed
             /\ account' = IF r.outcome = "Ok" /\ account.active
                           THEN [account EXCEPT !.admitted = @ + n]
                           ELSE account
    /\ UNCHANGED clock

\* rate.adjust(rate, period, max_burst); the clock may advance between the
\* two readings the call takes.
Adjust ==
    /\ Running
    /\ gcr.live
    /\ \E rate \in Rates, period \in Periods, max_burst \in Bursts,
          now \in clock..Min(clock + 1, MaxClock) :
         LET r == adjust(gcr, rate, period, max_burst, clock, now)
         IN  /\ gcr' = r.gcr
             /\ clock' = now
             /\ last' = Call("adjust", rate, period, max_burst, 0, now,
                             r.outcome, 0, gcr, NoDenied)
             /\ account' = IF r.outcome = "Ok" THEN NoAccount ELSE account
    /\ denied' = NoDenied
    /\ zeroed' = NoZeroed

Next == Tick \/ New \/ Capacity \/ Request \/ Adjust

Spec == Init /\ [][Next]_vars

\* The runs in which the limiter is constructed and never adjusted, with an
\* account kept of the units admitted.
InitRate ==
    /\ clock = 0
    /\ gcr = NoGcr
    /\ last = NoCall
    /\ denied = NoDenied
    /\ zeroed = NoZeroed
    /\ account = OpenAccount

NextRate == Tick \/ New \/ Capacity \/ Request

SpecRate == InitRate /\ [][NextRate]_vars

(* ------------------------------ claims -------------------------------- *)

\* What capacity() would return from limiter g at the reading of the last call.
CapacityBefore == capacity_at(last.pre, last.now)
CapacityAfter == capacity_at(gcr, last.now)

\* The emission interval and burst that the last new/adjust call asked for.
AskedBurst == unwrap_or(last.max_burst, last.rate)
AskedInterval == last.period \div last.rate

\* C1 (monotone admission): when request(n) succeeds, the capacity at the
\* call's clock reading right after the call is the capacity at that reading
\* right before it, minus n.
C1_MonotoneAdmission ==
    (last.op = "request" /\ last.outcome = "Ok")
        => CapacityAfter = CapacityBefore - last.n

\* C2 (denial accuracy): a request(n) that follows a DeniedFor(d) answer to
\* request(n), with no request or adjust in between and at least d later,
\* succeeds.
C2_DenialAccuracy ==
    (/\ last.op = "request"
     /\ last.retry.active
     /\ last.retry.n = last.n
     /\ last.now >= last.retry.at + last.retry.d)
        => last.outcome = "Ok"

\* C3 (permanent rejection): request(n) with n above max_burst returns
\* RequestTooLarge and leaves every field of the limiter as it was, whatever
\* the time and the accumulated capacity; an omitted max_burst is the rate.
C3_PermanentRejection ==
    /\ (last.op = "request" /\ last.n > last.pre.max_burst)
           => (last.outcome = "RequestTooLarge" /\ gcr = last.pre)
    /\ (last.op = "new" /\ last.outcome = "Ok" /\ ~last.max_burst.some)
           => gcr.max_burst = last.rate

\* A request above max_burst was made of a limiter holding its full burst,
\* long enough after allow_at for n whole intervals to have passed.
C3_Witness ==
    /\ last.op = "request"
    /\ last.n > last.pre.max_burst
    /\ last.outcome = "RequestTooLarge"
    /\ last.pre.max_burst > 0
    /\ last.pre.emission_interval > 0
    /\ CapacityBefore = last.pre.max_burst
    /\ last.now - last.pre.allow_at >= last.n * last.pre.emission_interval

\* C4 (adjust preserves capacity): when adjust succeeds in a state with
\* capacity available, the capacity at the call's clock reading is the same
\* before and after, whatever the new parameters.
C4_AdjustPreservesCapacity ==
    (last.op = "adjust" /\ last.outcome = "Ok" /\ CapacityBefore > 0)
        => CapacityAfter = CapacityBefore

\* C5 (initial burst): right after a successful new the capacity at the
\* construction time is the burst asked for (the rate when it was omitted).
C5_InitialBurst ==
    (last.op = "new" /\ last.outcome = "Ok")
        => CapacityAfter = AskedBurst

\* C6 (refill linearity): k whole emission intervals after a successful
\* request left the capacity at zero, with no request or adjust since, the
\* capacity is min(k, max_burst).
C6_RefillLinearity ==
    zeroed.active =>
        \A k \in 0..MaxClock :
            clock = zeroed.at + k * gcr.emission_interval
                => capacity_at(gcr, clock) = Min(k, gcr.max_burst)

\* C7 (errors are values): no call of new, request, adjust or capacity ends
\* abnormally; an arithmetic overflow is reported as ParametersOutOfRange.
C7_NoAbnormalTermination ==
    last.outcome # "panic"

\* C8 (adjust is all-or-nothing): an adjust that returns ParametersOutOfRange
\* leaves every field unchanged; one that succeeds replaces every field by the
\* candidate's (the new interval, burst and tolerance, with the cursor
\* delay_tolerance after allow_at).
C8_AdjustAllOrNothing ==
    last.op = "adjust" =>
        /\ last.outcome = "ParametersOutOfRange" => gcr = last.pre
        /\ last.outcome = "Ok" =>
               /\ gcr.live
               /\ gcr.emission_interval = AskedInterval
               /\ gcr.max_burst = AskedBurst
               /\ gcr.delay_tolerance = AskedInterval * AskedBurst
               /\ gcr.theoretical_arrival_time =
                      gcr.allow_at + gcr.delay_tolerance

\* An adjust whose candidate was built (the new parameters pass Gcr::new at
\* either clock reading) failed in the rescaling step.
C8_Witness ==
    /\ last.op = "adjust"
    /\ last.outcome = "ParametersOutOfRange"
    /\ last.rate # 0
    /\ AskedInterval * AskedBurst < last.now
    /\ last.pre.live

\* C9 (construction rejects bad parameters): new returns ParametersOutOfRange
\* when rate is 0 and when max_burst * (period / rate) exceeds the time since
\* the clock's epoch; no limiter is produced.
C9_ConstructionRejects ==
    (/\ last.op = "new"
     /\ \/ last.rate = 0
        \/ AskedBurst * AskedInterval > last.now - InstantMin)
        => (last.outcome = "ParametersOutOfRange" /\ ~gcr.live)

\* C10 (positive emission interval): every limiter has emission_interval > 0,
\* and new/adjust fail when period / rate is not a positive duration.
C10_PositiveEmissionInterval ==
    /\ gcr.live => gcr.emission_interval > 0
    /\ (/\ last.op \in {"new", "adjust"}
        /\ last.rate # 0
        /\ AskedInterval = 0)
           => last.outcome = "ParametersOutOfRange"

\* C11 (the new rate and burst govern refill): k new emission intervals
\* after a successful adjust that left capacity c, with the limiter untouched
\* in between, the capacity is min(c + k, new max_burst).
C11_AdjustGovernsRefill ==
    (last.op = "adjust" /\ last.outcome = "Ok") =>
        \A k \in 0..MaxClock :
            capacity_at(gcr, last.now + k * gcr.emission_interval)
                = Min(CapacityAfter + k, gcr.max_burst)

\* C12 (no windfall, no reset): right after a successful adjust the capacity
\* at the call's clock reading is not above the capacity before it, and is
\* not zero when the capacity before and the new max_burst were positive.
C12_NoWindfallNoReset ==
    (last.op = "adjust" /\ last.outcome = "Ok") =>
        /\ CapacityAfter <= CapacityBefore
        /\ (CapacityBefore > 0 /\ gcr.max_burst > 0) => CapacityAfter > 0

\* C13 (reads and denials do not mutate): capacity() and a request answered
\* DeniedFor leave every field of the limiter as it was, so a capacity query
\* repeated at the same clock reading returns the value just returned.
C13_ReadsAndDenialsDoNotMutate ==
    /\ last.op = "capacity" =>
           /\ gcr = last.pre
           /\ capacity(gcr, clock).value = last.value
    /\ (last.op = "request" /\ last.outcome = "DeniedFor") =>
           /\ gcr = last.pre
           /\ CapacityAfter = CapacityBefore

\* A capacity query answered with a positive value below the burst (the
\* limiter is refilling).
C13_Witness ==
    /\ last.op = "capacity"
    /\ last.value > 0
    /\ last.value < gcr.max_burst
    /\ gcr.emission_interval > 0

\* C14 (rate bound): for a limiter constructed at account.born and never
\* adjusted, the units admitted by its successful requests up to the current
\* time are at most max_burst + floor((clock - born) / emission_interval);
\* the first conjunct is the same bound cleared of the division.
C14_RateBound ==
    account.active =>
        /\ (account.admitted - gcr.max_burst) * gcr.emission_interval
               <= clock - account.born
        /\ gcr.emission_interval > 0 =>
               account.admitted <= gcr.max_burst
                   + (clock - account.born) \div gcr.emission_interval

\* The bound is met exactly, after more than one burst has been admitted.
C14_Witness ==
    /\ account.active
    /\ gcr.emission_interval > 0
    /\ gcr.max_burst > 0
    /\ account.admitted > gcr.max_burst
    /\ account.admitted = gcr.max_burst
           + (clock - account.born) \div gcr.emission_interval

\* C15 (no over-admission): a request(n) with n <= max_burst succeeds exactly
\* when n <= capacity at the call's clock reading; no request above the
\* capacity is admitted through the fall-through path.
C15_NoOverAdmission ==
    (last.op = "request" /\ last.n <= last.pre.max_burst)
        => (last.outcome = "Ok" <=> last.n <= CapacityBefore)

\* A request within the burst but above the positive capacity held was denied.
C15_Witness ==
    /\ last.op = "request"
    /\ last.n <= last.pre.max_burst
    /\ last.n > CapacityBefore
    /\ CapacityBefore > 0
    /\ last.outcome = "DeniedFor"

\* C16 (exact, minimal wait): a DeniedFor(d) answer to request(n) at now has
\* d = allow_at + n * emission_interval - now and d > 0, and the same request
\* repeated before now + d, with no request or adjust in between, is denied.
C16_ExactMinimalWait ==
    /\ (last.op = "request" /\ last.outcome = "DeniedFor") =>
           /\ last.value = last.pre.allow_at
                  + last.n * last.pre.emission_interval - last.now
           /\ last.value > 0
    /\ (/\ last.op = "request"
        /\ last.retry.active
        /\ last.retry.n = last.n
        /\ last.now < last.retry.at + last.retry.d)
           => last.outcome = "DeniedFor"

\* C17 (cursor consistency): after every successful new, request or adjust,
\* allow_at = theoretical_arrival_time - delay_tolerance and
\* delay_tolerance = emission_interval * max_burst.
C17_CursorConsistency ==
    (last.op \in {"new", "request", "adjust"} /\ last.outcome = "Ok") =>
        /\ gcr.allow_at = gcr.theoretical_arrival_time - gcr.delay_tolerance
        /\ gcr.delay_tolerance = gcr.emission_interval * gcr.max_burst

\* A successful adjust of a limiter that held part of its burst changed the
\* interval and the tolerance.
C17_Witness ==
    /\ last.op = "adjust"
    /\ last.outcome = "Ok"
    /\ gcr.delay_tolerance > 0
    /\ gcr.delay_tolerance # last.pre.delay_tolerance
    /\ gcr.emission_interval # last.pre.emission_interval
    /\ CapacityBefore > 0
    /\ CapacityBefore < last.pre.max_burst

\* C18 (the defensive error path is unreachable): no request returns
\* ParametersOutOfRange, so none leaves theoretical_arrival_time advanced
\* with allow_at not following it.
C18_RequestNeverOutOfRange ==
    last.op = "request" =>
        /\ last.outcome # "ParametersOutOfRange"
        /\ gcr.theoretical_arrival_time # last.pre.theoretical_arrival_time
               => gcr.allow_at
                      = gcr.theoretical_arrival_time - gcr.delay_tolerance

\* A request was admitted whose checked subtraction landed on the epoch.
C18_Witness ==
    /\ last.op = "request"
    /\ last.outcome = "Ok"
    /\ gcr.delay_tolerance > 0
    /\ gcr.allow_at = InstantMin

\* C19 (never in deficit): allow_at is never after the current time, and no
\* call of capacity, request or adjust finds now < allow_at.
C19_NeverInDeficit ==
    /\ gcr.live => gcr.allow_at <= clock
    /\ last.op \in {"capacity", "request", "adjust"}
           => last.pre.allow_at <= last.now

\* A request took everything the limiter held: allow_at reached the clock.
C19_Witness ==
    /\ last.op = "request"
    /\ last.outcome = "Ok"
    /\ last.n > 0
    /\ gcr.emission_interval > 0
    /\ gcr.allow_at = clock

\* C20 as stated (cursor movement): across a successful request the cursor
\* does not decrease and advances by a whole multiple of emission_interval.
C20_CursorWholeMultiples ==
    (last.op = "request" /\ last.outcome = "Ok") =>
        /\ gcr.theoretical_arrival_time >= last.pre.theoretical_arrival_time
        /\ \E k \in 0..InstantMax :
               gcr.theoretical_arrival_time - last.pre.theoretical_arrival_time
                   = k * last.pre.emission_interval

\* C20 as amended: across a successful request(n) the cursor does not decrease
\* and becomes max(cursor, now) + n * emission_interval: it advances by
\* n * emission_interval when it was not behind the clock, and by the idle time
\* now - cursor on top of that otherwise.
C20_CursorMovement ==
    (last.op = "request" /\ last.outcome = "Ok") =>
        /\ gcr.theoretical_arrival_time >= last.pre.theoretical_arrival_time
        /\ gcr.theoretical_arrival_time
               = Max(last.pre.theoretical_arrival_time, last.now)
                     + last.n * last.pre.emission_interval
        /\ last.pre.theoretical_arrival_time >= last.now
               => gcr.theoretical_arrival_time
                      - last.pre.theoretical_arrival_time
                      = last.n * last.pre.emission_interval

\* A request was admitted after an idle time that is no whole number of
\* emission intervals.
C20_Witness ==
    /\ last.op = "request"
    /\ last.outcome = "Ok"
    /\ last.n > 0
    /\ last.pre.emission_interval > 1
    /\ last.pre.theoretical_arrival_time < last.now
    /\ (last.now - last.pre.theoretical_arrival_time)
           % last.pre.emission_interval # 0

=============================================================================
